---- MODULE Spec2Model ----
(***************************************************************************)
(* Model of github.com/ladzaretti/migrate: the Migrator (migrate.go), the  *)
(* schema version store it drives (internal/schemaops) and the stock       *)
(* dialect's three statements.                                             *)
(*                                                                         *)
(* A string is a sequence of characters.  A character is the record        *)
(* [c |-> "a"]; the hex digest a checksum function returns is one opaque   *)
(* token [sha1 |-> s], where s is the string that was hashed, so that two  *)
(* digests are equal exactly when the hashed strings are (SHA-1 taken as   *)
(* collision free).                                                        *)
(***************************************************************************)
EXTENDS Naturals, Sequences, FiniteSets

VARIABLES
    db,          \* the committed database: version table, its rows, script effects
    pc,          \* per Migrator: position of its ApplyContext call
    cfg,         \* per Migrator: the options New was given
    migrations,  \* per Migrator: the list the Source returned
    schema,      \* per Migrator: the SchemaVersion read at the start of the call
    idx,         \* per Migrator: loop variable i of applyMigrations
    n,           \* per Migrator: applied counter n of applyMigrations
    tx,          \* per Migrator: the open transaction's view of the database, or NoTx
    retErr,      \* per Migrator: error returned by applyMigrations
    ret,         \* per Migrator: what ApplyContext returned, [n, err]
    pre,         \* per Migrator: the database as it was when the call began
    log,         \* per Migrator: the statements the call issued, in order
    kind,        \* per Migrator: how the call came about: "new", "again" or "unfiltered"
    first,       \* per Migrator: in a follow-up call, the call it follows
    plain,       \* no call so far used a rejecting filter or full reapply
    got          \* per Migrator: what its last CurrentSchemaVersion call returned

vars == <<db, pc, cfg, migrations, schema, idx, n, tx, retErr, ret, pre, log, kind, first, plain, got>>

-----------------------------------------------------------------------------
(* Bounds of the model *)

MaxScripts == 2
MaxApplied == 2

Migrators == {1, 2}

-----------------------------------------------------------------------------
(* Strings, scripts and the checksum *)

Ch(x) == [c |-> x]

\* unicode.IsSpace
IsSpace(r) == r \in {Ch(" "), Ch("\n"), Ch("\t")}

\* Script texts the Source may hand over: two scripts of different content
\* and one that is not valid SQL.
ScriptA == <<Ch("a")>>
ScriptB == <<Ch("b")>>
ScriptInvalid == <<Ch("!")>>
Texts == {ScriptA, ScriptB, ScriptInvalid}

\* Faulty variant: whitespace is kept
normalizeIdentity(s) == s

normalize(s) == SelectSeq(s, LAMBDA r : ~IsSpace(r))

normalizedSha1(query) == << [sha1 |-> normalize(query)] >>

checksum(s) == normalizedSha1(s)

\* Faulty variant: every entry is computed from its own script alone
checksumHistoryUnchained(migs) ==
    [k \in 0..Len(migs) |-> IF k = 0 THEN << >> ELSE checksum(checksum(migs[k]))]

\* Faulty variant: the chain starts from the digest of the empty string
checksumHistorySeeded(migs) ==
    LET history[k \in 0..Len(migs)] ==
            IF k = 0 THEN checksum(<< >>)
            ELSE checksum(history[k - 1] \o checksum(migs[k]))
    IN  history

\* Faulty variant: every entry is computed from the whole list
checksumHistoryOfList(migs) ==
    LET all[k \in 0..Len(migs)] ==
            IF k = 0 THEN << >> ELSE all[k - 1] \o checksum(migs[k])
    IN  [k \in 0..Len(migs) |->
            IF k = 0 THEN << >> ELSE checksum(all[k] \o all[Len(migs)])]

\* history[0] is the empty string, not a digest
checksumHistory(migs) ==
    LET history[k \in 0..Len(migs)] ==
            IF k = 0 THEN << >>
            ELSE checksum(history[k - 1] \o checksum(migs[k]))
    IN  history

\* db.ExecContext(ctx, migration) returns an error
ExecFails(migration) == \E k \in 1..Len(migration) : migration[k] = Ch("!")

-----------------------------------------------------------------------------
(* The schema version store over the stock dialect *)

ZeroSchemaVersion == [ID |-> 0, Version |-> 0, Checksum |-> << >>]

NoTx == [open |-> FALSE]

\* A database nothing was ever applied to.  applied counts the script
\* executions whose effect is part of the database; basis is the script prefix
\* the stored checksum was computed from.
EmptyDB == [table |-> FALSE, rows |-> {}, applied |-> 0, basis |-> << >>, dialect |-> "stock"]

\* The dialect the database is driven with.  "stock": SQLiteDialect and
\* PostgreSQLDialect, whose table creation inserts the row and whose save is
\* an UPDATE of the row with id 0.  "upsert": a dialect as the Dialect
\* interface allows it, whose table creation inserts nothing and whose save
\* upserts the row with id 0.
Dialects == {"stock", "upsert"}

\* Faulty variant: the insert replaces the row that is there
CreateTableResets(d) ==
    [d EXCEPT !.table = TRUE, !.rows = {ZeroSchemaVersion}]

CreateTable(d) ==
    [d EXCEPT !.table = TRUE,
              !.rows = IF d.dialect = "upsert" \/ \E r \in d.rows : r.ID = 0 THEN d.rows
                       ELSE d.rows \cup {ZeroSchemaVersion}]

\* Faulty variant: the save sets the version and leaves the checksum
SaveVersionKeepsChecksum(d, s) ==
    IF d.dialect = "upsert" /\ ~\E r \in d.rows : r.ID = 0
    THEN [d EXCEPT !.rows = @ \cup {[ID |-> 0, Version |-> s.Version, Checksum |-> << >>]}]
    ELSE [d EXCEPT !.rows = {IF r.ID = 0 THEN [r EXCEPT !.Version = s.Version] ELSE r : r \in d.rows}]

\* Faulty variant: every save inserts a row of its own
SaveVersionInserts(d, s) ==
    [d EXCEPT !.rows = @ \cup {[ID |-> Cardinality(d.rows),
                                Version |-> s.Version, Checksum |-> s.Checksum]}]

\* Faulty variant: the UPDATE names a row that does not exist
SaveVersionNoRow(d, s) ==
    [d EXCEPT !.rows = {IF r.ID = 1
                        THEN [r EXCEPT !.Version = s.Version, !.Checksum = s.Checksum]
                        ELSE r : r \in d.rows}]

SaveVersion(d, s) ==
    IF d.dialect = "upsert" /\ ~\E r \in d.rows : r.ID = 0
    THEN [d EXCEPT !.rows = @ \cup {[ID |-> 0, Version |-> s.Version, Checksum |-> s.Checksum]}]
    ELSE [d EXCEPT !.rows = {IF r.ID = 0
                             THEN [r EXCEPT !.Version = s.Version, !.Checksum = s.Checksum]
                             ELSE r : r \in d.rows}]

\* Faulty variant: the row is never scanned
CurrentVersionZero(d) == ZeroSchemaVersion

CurrentVersion(d) ==
    IF d.rows = {} THEN ZeroSchemaVersion ELSE CHOOSE r \in d.rows : TRUE

\* The effect of db.ExecContext(ctx, migration) when it succeeds
ExecScript(d) == [d EXCEPT !.applied = d.applied + 1]

-----------------------------------------------------------------------------
(* The Migrator *)

Nil == [kind |-> "nil", num |-> 0]
Err(k, num) == [kind |-> k, num |-> num]

\* A Filter is modelled by the set of migration numbers it returns false for;
\* the default filter returns true for every number.
AcceptAll == {}

\* Faulty variant: the filter is not consulted
AcceptsAlways(c, migrationNumber) == TRUE

\* Faulty variant: the filter is asked about the 0-based index
AcceptsZeroBased(c, migrationNumber) == (migrationNumber - 1) \notin c.migrationFilter

\* m.migrationFilter(migrationNumber)
Accepts(c, migrationNumber) == migrationNumber \notin c.migrationFilter

\* migrate.New with no options
DefaultConfig ==
    [withTx |-> TRUE, withChecksumValidation |-> TRUE, reapplyAll |-> FALSE,
     migrationFilter |-> AcceptAll]

\* migrate.New with any options, the filter given on the migration numbers
\* of a list of the given length
Configs(len) ==
    [withTx : BOOLEAN, withChecksumValidation : BOOLEAN, reapplyAll : BOOLEAN,
     migrationFilter : SUBSET (1..len)]

ScriptLists == UNION {[1..len -> Texts] : len \in 0..MaxScripts}

NoCall == [cfg |-> DefaultConfig, migrations |-> << >>, pre |-> EmptyDB, ret |-> [n |-> 0, err |-> Nil]]

\* Faulty variant: the option that disables validation is ignored
validateChecksumAlways(c, sch, runtimeChecksum) ==
    IF sch.Version = 0 THEN Nil
    ELSE IF sch.Checksum # runtimeChecksum[sch.Version] THEN Err("integrity", sch.Version)
    ELSE Nil

validateChecksum(c, sch, runtimeChecksum) ==
    IF ~c.withChecksumValidation THEN Nil
    ELSE IF sch.Version = 0 THEN Nil
    ELSE IF sch.Checksum # runtimeChecksum[sch.Version] THEN Err("integrity", sch.Version)
    ELSE Nil

\* Faulty variant: the overrun check is part of the validation that the
\* option switches off
PrecheckOnlyWhenValidating(c, sch, migs) ==
    IF ~c.withChecksumValidation THEN Nil
    ELSE IF sch.Version > Len(migs) THEN Err("overrun", sch.Version)
    ELSE validateChecksum(c, sch, checksumHistory(migs))

\* Faulty variant: the call goes on whatever version it read
PrecheckNever(c, sch, migs) == Nil

\* Faulty variant: the overrun check is left out and a version beyond the
\* list passes
PrecheckNoOverrun(c, sch, migs) ==
    IF sch.Version > Len(migs) THEN Nil
    ELSE validateChecksum(c, sch, checksumHistory(migs))

\* ApplyContext: the overrun check, then the checksum validation
Precheck(c, sch, migs) ==
    IF sch.Version > Len(migs) THEN Err("overrun", sch.Version)
    ELSE validateChecksum(c, sch, checksumHistory(migs))

\* Faulty variant: the call never finds the schema up to date
UpToDateNever(c, sch, migs) == FALSE

\* ApplyContext: nothing is left to apply
UpToDate(c, sch, migs) == ~c.reapplyAll /\ sch.Version >= Len(migs)

\* Faulty variant: the loop always starts at the first script
fromZero(c, current) == 0

\* Faulty variant: full-reapply mode is ignored
fromCurrent(c, current) == current

\* applyMigrations: where the loop starts
from(c, current) == IF c.reapplyAll THEN 0 ELSE current

\* applyMigrations: the first index at or after i whose migration number the
\* filter accepts, len(migrations) when there is none
\* Faulty variant: the loop jumps to the last script the filter accepts
NextSelectedLast(c, migs, i) ==
    LET sel == {j \in i..(Len(migs) - 1) : Accepts(c, j + 1)}
    IN  IF sel = {} THEN Len(migs)
        ELSE CHOOSE j \in sel : \A k \in sel : k <= j

NextSelected(c, migs, i) ==
    LET sel == {j \in i..(Len(migs) - 1) : Accepts(c, j + 1)}
    IN  IF sel = {} THEN Len(migs)
        ELSE CHOOSE j \in sel : \A k \in sel : j <= k

\* Faulty variant: the loop is handed the plain connection in either mode
ViaDb(m) == "db"

\* The connection a statement of the call's batch is issued on
Via(m) == IF cfg[m].withTx THEN "tx" ELSE "db"

\* The database as that connection sees it
View(m) == IF cfg[m].withTx THEN tx[m] ELSE db

\* Faulty variant: the script is run and the version is not saved
applyMigrationNoSave(d, sch, migs) == ExecScript(d)

\* applyMigration: run the script, then save the version it brings the schema to
applyMigration(d, sch, migs) ==
    [SaveVersion(ExecScript(d), sch) EXCEPT !.basis = SubSeq(migs, 1, sch.Version)]

\* Faulty variant: the version saved is the 0-based index
VersionAfterIndex(i, checksums) ==
    [ID |-> 0, Version |-> i, Checksum |-> checksums[i + 1]]

\* Faulty variant: the checksum saved is that of the state before the script
VersionAfterStale(i, checksums) ==
    [ID |-> 0, Version |-> i + 1, Checksum |-> checksums[i]]

\* applyMigrations: the SchemaVersion saved after the script at index i
VersionAfter(i, checksums) ==
    [ID |-> 0, Version |-> i + 1, Checksum |-> checksums[i + 1]]

Event(op, num, via) == [op |-> op, num |-> num, via |-> via]

\* ApplyContext up to the point where applyMigrations is entered: list the
\* source, create the version table, read the version, check for overrun,
\* validate the checksum, return when up to date, begin the transaction.
Begin(m, c, migs, k, f) ==
    LET d1 == CreateTable(db)
        sch == CurrentVersion(d1)
        err == Precheck(c, sch, migs)
        returns == err # Nil \/ UpToDate(c, sch, migs)
        issued == <<Event("create", 0, "db"), Event("read", 0, "db")>>
    IN  /\ c.reapplyAll => db.applied < MaxApplied
        /\ db' = d1
        /\ cfg' = [cfg EXCEPT ![m] = c]
        /\ migrations' = [migrations EXCEPT ![m] = migs]
        /\ schema' = [schema EXCEPT ![m] = sch]
        /\ pre' = [pre EXCEPT ![m] = db]
        /\ kind' = [kind EXCEPT ![m] = k]
        /\ first' = [first EXCEPT ![m] = f]
        /\ plain' = (plain /\ ~c.reapplyAll /\ c.migrationFilter = AcceptAll)
        /\ idx' = [idx EXCEPT ![m] = from(c, sch.Version)]
        /\ n' = [n EXCEPT ![m] = 0]
        /\ retErr' = [retErr EXCEPT ![m] = Nil]
        /\ pc' = [pc EXCEPT ![m] = IF returns THEN "done" ELSE "apply"]
        /\ ret' = [ret EXCEPT ![m] = [n |-> 0, err |-> err]]
        /\ tx' = [tx EXCEPT ![m] = IF ~returns /\ c.withTx THEN d1 ELSE NoTx]
        /\ log' = [log EXCEPT ![m] =
                     IF ~returns /\ c.withTx THEN Append(issued, Event("begin", 0, "db"))
                     ELSE issued]
        /\ UNCHANGED got

\* m := migrate.New(db, dialect, opts...); m.Apply(from)
ApplyContext(m) ==
    /\ pc[m] = "idle"
    /\ \E migs \in ScriptLists : \E c \in Configs(Len(migs)) :
          Begin(m, c, migs, "new", NoCall)

ThisCall(m) == [cfg |-> cfg[m], migrations |-> migrations[m], pre |-> pre[m], ret |-> ret[m]]

\* the same Migrator applies the same source once more
ApplyAgain(m) ==
    /\ pc[m] = "done"
    /\ kind[m] = "new"
    /\ Begin(m, cfg[m], migrations[m], "again", ThisCall(m))

\* a Migrator made with no options applies the same source
ApplyUnfiltered(m) ==
    /\ pc[m] = "done"
    /\ kind[m] = "new"
    /\ Begin(m, DefaultConfig, migrations[m], "unfiltered", ThisCall(m))

\* Faulty variant: after a failing script the loop goes on with the next one
applyMigrationsContinues(m) ==
    LET c == cfg[m]
        migs == migrations[m]
        checksums == checksumHistory(migs)
        i == NextSelected(c, migs, idx[m])
        exits == i >= Len(migs)
        fails == ~exits /\ ExecFails(migs[i + 1])
        sch == IF exits THEN ZeroSchemaVersion ELSE VersionAfter(i, checksums)
        d2 == IF exits \/ fails THEN View(m) ELSE applyMigration(View(m), sch, migs)
        e == IF exits THEN Nil
             ELSE IF fails THEN Err("exec", i + 1) ELSE Nil
    IN  /\ pc[m] = "apply"
        /\ idx' = [idx EXCEPT ![m] = IF exits THEN i ELSE i + 1]
        /\ n' = [n EXCEPT ![m] = IF exits \/ fails THEN n[m] ELSE n[m] + 1]
        /\ retErr' = [retErr EXCEPT ![m] = IF exits THEN @ ELSE e]
        /\ db' = IF c.withTx THEN db ELSE d2
        /\ tx' = [tx EXCEPT ![m] = IF c.withTx THEN d2 ELSE NoTx]
        /\ log' = [log EXCEPT ![m] =
                     IF exits THEN @
                     ELSE IF fails THEN Append(@, Event("execfail", i + 1, Via(m)))
                     ELSE @ \o <<Event("exec", i + 1, Via(m)), Event("save", i + 1, Via(m))>>]
        /\ pc' = [pc EXCEPT ![m] =
                     IF ~exits THEN "apply"
                     ELSE IF ~c.withTx THEN "done"
                     ELSE IF retErr[m] # Nil THEN "rollback" ELSE "commit"]
        /\ ret' = [ret EXCEPT ![m] =
                     IF exits /\ ~c.withTx THEN [n |-> n[m], err |-> retErr[m]] ELSE @]
        /\ UNCHANGED <<cfg, migrations, schema, pre, kind, first, plain, got>>

\* One iteration of the loop of applyMigrations that reaches a selected
\* script (the iterations the filter skips before it included), or the
\* loop's exit.
applyMigrations(m) ==
    LET c == cfg[m]
        migs == migrations[m]
        checksums == checksumHistory(migs)
        i == NextSelected(c, migs, idx[m])
        exits == i >= Len(migs)
        fails == ~exits /\ ExecFails(migs[i + 1])
        sch == IF exits THEN ZeroSchemaVersion ELSE VersionAfter(i, checksums)
        d2 == IF exits \/ fails THEN View(m) ELSE applyMigration(View(m), sch, migs)
        e == IF exits THEN Nil
             ELSE IF fails THEN Err("exec", i + 1) ELSE Nil
    IN  /\ pc[m] = "apply"
        /\ idx' = [idx EXCEPT ![m] = IF exits \/ fails THEN i ELSE i + 1]
        /\ n' = [n EXCEPT ![m] = IF exits \/ fails THEN n[m] ELSE n[m] + 1]
        /\ retErr' = [retErr EXCEPT ![m] = e]
        /\ db' = IF c.withTx THEN db ELSE d2
        /\ tx' = [tx EXCEPT ![m] = IF c.withTx THEN d2 ELSE NoTx]
        /\ log' = [log EXCEPT ![m] =
                     IF exits THEN @
                     ELSE IF fails THEN Append(@, Event("execfail", i + 1, Via(m)))
                     ELSE @ \o <<Event("exec", i + 1, Via(m)), Event("save", i + 1, Via(m))>>]
        /\ pc' = [pc EXCEPT ![m] =
                     IF ~(exits \/ fails) THEN "apply"
                     ELSE IF ~c.withTx THEN "done"
                     ELSE IF fails THEN "rollback" ELSE "commit"]
        /\ ret' = [ret EXCEPT ![m] =
                     IF (exits \/ fails) /\ ~c.withTx THEN [n |-> n[m], err |-> e] ELSE @]
        /\ UNCHANGED <<cfg, migrations, schema, pre, kind, first, plain, got>>

\* tx.Commit() and the return that follows it
Commit(m) ==
    /\ pc[m] = "commit"
    /\ db' = tx[m]
    /\ tx' = [tx EXCEPT ![m] = NoTx]
    /\ log' = [log EXCEPT ![m] = Append(@, Event("commit", 0, "tx"))]
    /\ ret' = [ret EXCEPT ![m] = [n |-> n[m], err |-> Nil]]
    /\ pc' = [pc EXCEPT ![m] = "done"]
    /\ UNCHANGED <<cfg, migrations, schema, idx, n, retErr, pre, kind, first, plain, got>>

\* Faulty variant: the failing path commits the transaction
RollbackCommits(m) ==
    /\ pc[m] = "rollback"
    /\ db' = tx[m]
    /\ tx' = [tx EXCEPT ![m] = NoTx]
    /\ log' = [log EXCEPT ![m] = Append(@, Event("commit", 0, "tx"))]
    /\ ret' = [ret EXCEPT ![m] = [n |-> 0, err |-> retErr[m]]]
    /\ pc' = [pc EXCEPT ![m] = "done"]
    /\ UNCHANGED <<cfg, migrations, schema, idx, n, retErr, pre, kind, first, plain, got>>

\* Faulty variant: the failing path returns without ending the transaction
RollbackSkipped(m) ==
    /\ pc[m] = "rollback"
    /\ ret' = [ret EXCEPT ![m] = [n |-> 0, err |-> retErr[m]]]
    /\ pc' = [pc EXCEPT ![m] = "done"]
    /\ UNCHANGED <<db, tx, log, cfg, migrations, schema, idx, n, retErr, pre, kind, first, plain, got>>

\* Faulty variant: the failing path returns the count reached in the transaction
RollbackReturnsCount(m) ==
    /\ pc[m] = "rollback"
    /\ tx' = [tx EXCEPT ![m] = NoTx]
    /\ log' = [log EXCEPT ![m] = Append(@, Event("rollback", 0, "tx"))]
    /\ ret' = [ret EXCEPT ![m] = [n |-> n[m], err |-> retErr[m]]]
    /\ pc' = [pc EXCEPT ![m] = "done"]
    /\ UNCHANGED <<db, cfg, migrations, schema, idx, n, retErr, pre, kind, first, plain, got>>

\* tx.Rollback() and the return that follows it
Rollback(m) ==
    /\ pc[m] = "rollback"
    /\ tx' = [tx EXCEPT ![m] = NoTx]
    /\ log' = [log EXCEPT ![m] = Append(@, Event("rollback", 0, "tx"))]
    /\ ret' = [ret EXCEPT ![m] = [n |-> 0, err |-> retErr[m]]]
    /\ pc' = [pc EXCEPT ![m] = "done"]
    /\ UNCHANGED <<db, cfg, migrations, schema, idx, n, retErr, pre, kind, first, plain, got>>

-----------------------------------------------------------------------------
(* The same call when the source, the driver or the database fail *)

ListErr == Err("list", 0)
CommitErr == Err("commit", 0)
RollbackErr == Err("rollback", 0)

\* errors.Join(errs...), wrapped by errf: the text of every joined error is
\* part of the message
Join(errs) == [kind |-> "join", num |-> 0, errs |-> errs]

\* Faulty variant: the version table is ensured before the source is listed
ListFailsAfterCreate(m) ==
    /\ pc[m] = "idle"
    /\ \E c \in Configs(0) : cfg' = [cfg EXCEPT ![m] = c]
    /\ pre' = [pre EXCEPT ![m] = db]
    /\ db' = CreateTable(db)
    /\ log' = [log EXCEPT ![m] = <<Event("create", 0, "db")>>]
    /\ ret' = [ret EXCEPT ![m] = [n |-> 0, err |-> ListErr]]
    /\ pc' = [pc EXCEPT ![m] = "done"]
    /\ UNCHANGED <<migrations, schema, idx, n, tx, retErr, kind, first, plain, got>>

\* ApplyContext when from.List() returns an error
ListFails(m) ==
    /\ pc[m] = "idle"
    /\ \E c \in Configs(0) : cfg' = [cfg EXCEPT ![m] = c]
    /\ pre' = [pre EXCEPT ![m] = db]
    /\ ret' = [ret EXCEPT ![m] = [n |-> 0, err |-> ListErr]]
    /\ pc' = [pc EXCEPT ![m] = "done"]
    /\ UNCHANGED <<db, migrations, schema, idx, n, tx, retErr, log, kind, first, plain, got>>

\* The iteration of applyMigrations in which the script runs and
\* schemaops.SaveVersion then returns an error
SaveVersionFails(m) ==
    LET c == cfg[m]
        migs == migrations[m]
        i == NextSelected(c, migs, idx[m])
        e == Err("save", i + 1)
        d2 == ExecScript(View(m))
    IN  /\ pc[m] = "apply"
        /\ i < Len(migs)
        /\ ~ExecFails(migs[i + 1])
        /\ View(m).applied < MaxApplied
        /\ idx' = [idx EXCEPT ![m] = i]
        /\ retErr' = [retErr EXCEPT ![m] = e]
        /\ db' = IF c.withTx THEN db ELSE d2
        /\ tx' = [tx EXCEPT ![m] = IF c.withTx THEN d2 ELSE NoTx]
        /\ log' = [log EXCEPT ![m] =
                     @ \o <<Event("exec", i + 1, Via(m)), Event("savefail", i + 1, Via(m))>>]
        /\ pc' = [pc EXCEPT ![m] = IF c.withTx THEN "rollback" ELSE "done"]
        /\ ret' = [ret EXCEPT ![m] = IF c.withTx THEN @ ELSE [n |-> n[m], err |-> e]]
        /\ UNCHANGED <<cfg, migrations, schema, n, pre, kind, first, plain, got>>

\* Faulty variant: the count reached in the transaction is returned
CommitFailsReturnsCount(m) ==
    /\ pc[m] = "commit"
    /\ tx' = [tx EXCEPT ![m] = NoTx]
    /\ log' = [log EXCEPT ![m] = Append(@, Event("commitfail", 0, "tx"))]
    /\ ret' = [ret EXCEPT ![m] = [n |-> n[m], err |-> CommitErr]]
    /\ pc' = [pc EXCEPT ![m] = "done"]
    /\ UNCHANGED <<db, cfg, migrations, schema, idx, n, retErr, pre, kind, first, plain, got>>

\* tx.Commit() returns an error: nothing of the transaction is committed
CommitFails(m) ==
    /\ pc[m] = "commit"
    /\ tx' = [tx EXCEPT ![m] = NoTx]
    /\ log' = [log EXCEPT ![m] = Append(@, Event("commitfail", 0, "tx"))]
    /\ ret' = [ret EXCEPT ![m] = [n |-> 0, err |-> CommitErr]]
    /\ pc' = [pc EXCEPT ![m] = "done"]
    /\ UNCHANGED <<db, cfg, migrations, schema, idx, n, retErr, pre, kind, first, plain, got>>

\* Faulty variant: only the rollback error is returned
RollbackFailsDropsCause(m) ==
    /\ pc[m] = "rollback"
    /\ tx' = [tx EXCEPT ![m] = NoTx]
    /\ log' = [log EXCEPT ![m] = Append(@, Event("rollbackfail", 0, "tx"))]
    /\ ret' = [ret EXCEPT ![m] = [n |-> 0, err |-> Join(<<RollbackErr>>)]]
    /\ pc' = [pc EXCEPT ![m] = "done"]
    /\ UNCHANGED <<db, cfg, migrations, schema, idx, n, retErr, pre, kind, first, plain, got>>

\* tx.Rollback() returns an error
RollbackFails(m) ==
    /\ pc[m] = "rollback"
    /\ tx' = [tx EXCEPT ![m] = NoTx]
    /\ log' = [log EXCEPT ![m] = Append(@, Event("rollbackfail", 0, "tx"))]
    /\ ret' = [ret EXCEPT ![m] = [n |-> 0, err |-> Join(<<RollbackErr, retErr[m]>>)]]
    /\ pc' = [pc EXCEPT ![m] = "done"]
    /\ UNCHANGED <<db, cfg, migrations, schema, idx, n, retErr, pre, kind, first, plain, got>>

\* The caller drops the Migrator and what it returned
Return(m) ==
    /\ pc[m] = "done"
    /\ pc' = [pc EXCEPT ![m] = "idle"]
    /\ cfg' = [cfg EXCEPT ![m] = DefaultConfig]
    /\ migrations' = [migrations EXCEPT ![m] = << >>]
    /\ schema' = [schema EXCEPT ![m] = ZeroSchemaVersion]
    /\ idx' = [idx EXCEPT ![m] = 0]
    /\ n' = [n EXCEPT ![m] = 0]
    /\ retErr' = [retErr EXCEPT ![m] = Nil]
    /\ ret' = [ret EXCEPT ![m] = [n |-> 0, err |-> Nil]]
    /\ pre' = [pre EXCEPT ![m] = EmptyDB]
    /\ log' = [log EXCEPT ![m] = << >>]
    /\ kind' = [kind EXCEPT ![m] = "new"]
    /\ first' = [first EXCEPT ![m] = NoCall]
    /\ UNCHANGED <<db, tx, plain, got>>

NotCalled == [called |-> FALSE, schema |-> ZeroSchemaVersion, err |-> Nil]

InitMigrators ==
    /\ pc = [m \in Migrators |-> "idle"]
    /\ cfg = [m \in Migrators |-> DefaultConfig]
    /\ migrations = [m \in Migrators |-> << >>]
    /\ schema = [m \in Migrators |-> ZeroSchemaVersion]
    /\ idx = [m \in Migrators |-> 0]
    /\ n = [m \in Migrators |-> 0]
    /\ tx = [m \in Migrators |-> NoTx]
    /\ retErr = [m \in Migrators |-> Nil]
    /\ ret = [m \in Migrators |-> [n |-> 0, err |-> Nil]]
    /\ pre = [m \in Migrators |-> EmptyDB]
    /\ log = [m \in Migrators |-> << >>]
    /\ kind = [m \in Migrators |-> "new"]
    /\ first = [m \in Migrators |-> NoCall]
    /\ plain = TRUE
    /\ got = [m \in Migrators |-> NotCalled]

\* A database nothing was done to, driven with a stock dialect
Init ==
    /\ db = EmptyDB
    /\ InitMigrators

\* One caller at a time: Apply calls follow one another on Migrator 1
Next ==
    \/ ApplyContext(1)
    \/ ApplyAgain(1)
    \/ ApplyUnfiltered(1)
    \/ applyMigrations(1)
    \/ Commit(1)
    \/ Rollback(1)
    \/ Return(1)

Spec == Init /\ [][Next]_vars

\* The same caller when statements, commits and rollbacks may fail
NextFault ==
    \/ ApplyContext(1)
    \/ ListFails(1)
    \/ applyMigrations(1)
    \/ SaveVersionFails(1)
    \/ Commit(1)
    \/ CommitFails(1)
    \/ Rollback(1)
    \/ RollbackFails(1)
    \/ Return(1)

FaultSpec == Init /\ [][NextFault]_vars

BeginErr == Err("begin", 0)

\* migrate.New with any options, the filter rejecting nothing or the first
\* script
TermConfigs == Configs(1)

\* m := migrate.New(db, dialect, opts...); m.Apply(from)
ApplyTerm(m) ==
    /\ pc[m] = "idle"
    /\ \E migs \in ScriptLists : \E c \in TermConfigs :
          Begin(m, c, migs, "new", NoCall)

\* ApplyContext when m.db.BeginTx returns an error: the call has passed the
\* checks and found scripts left to apply
BeginTxFails(m) ==
    /\ pc[m] = "idle"
    /\ \E migs \in ScriptLists : \E c \in TermConfigs :
          LET d1 == CreateTable(db)
              sch == CurrentVersion(d1)
          IN  /\ c.withTx
              /\ Precheck(c, sch, migs) = Nil
              /\ ~UpToDate(c, sch, migs)
              /\ db' = d1
              /\ cfg' = [cfg EXCEPT ![m] = c]
              /\ migrations' = [migrations EXCEPT ![m] = migs]
              /\ schema' = [schema EXCEPT ![m] = sch]
              /\ pre' = [pre EXCEPT ![m] = db]
              /\ kind' = [kind EXCEPT ![m] = "new"]
              /\ first' = [first EXCEPT ![m] = NoCall]
              /\ plain' = (plain /\ ~c.reapplyAll /\ c.migrationFilter = AcceptAll)
              /\ idx' = [idx EXCEPT ![m] = from(c, sch.Version)]
              /\ n' = [n EXCEPT ![m] = 0]
              /\ retErr' = [retErr EXCEPT ![m] = Nil]
              /\ pc' = [pc EXCEPT ![m] = "done"]
              /\ ret' = [ret EXCEPT ![m] = [n |-> 0, err |-> BeginErr]]
              /\ log' = [log EXCEPT ![m] =
                           <<Event("create", 0, "db"), Event("read", 0, "db"),
                             Event("beginfail", 0, "db")>>]
              /\ UNCHANGED <<tx, got>>

\* The failing caller, the transaction possibly not starting either
NextTerm ==
    \/ ApplyTerm(1)
    \/ ListFails(1)
    \/ BeginTxFails(1)
    \/ applyMigrations(1)
    \/ SaveVersionFails(1)
    \/ Commit(1)
    \/ CommitFails(1)
    \/ Rollback(1)
    \/ RollbackFails(1)
    \/ Return(1)

\* A call is one sequential run of ApplyContext: every statement it issues
\* returns, with or without an error, and the next one is issued
TermSpec ==
    /\ Init
    /\ [][NextTerm]_vars
    /\ WF_vars(applyMigrations(1) \/ SaveVersionFails(1))
    /\ WF_vars(Commit(1) \/ CommitFails(1))
    /\ WF_vars(Rollback(1) \/ RollbackFails(1))

-----------------------------------------------------------------------------
(* Reading the version, and the store driven directly *)

QueryErr == Err("query", 0)

Others == <<db, pc, cfg, migrations, schema, idx, n, tx, retErr, ret, pre, log, kind, first, plain>>

\* Faulty variant: the version table is ensured before it is read
CurrentSchemaVersionEnsures(m) ==
    /\ pc[m] \in {"idle", "done"}
    /\ db' = CreateTable(db)
    /\ got' = [got EXCEPT ![m] =
                 [called |-> TRUE, schema |-> CurrentVersion(CreateTable(db)), err |-> Nil]]
    /\ UNCHANGED <<pc, cfg, migrations, schema, idx, n, tx, retErr, ret, pre, log, kind, first, plain>>

\* Faulty variant: a failing query is taken for an absent row
CurrentSchemaVersionAbsent(m) ==
    /\ pc[m] \in {"idle", "done"}
    /\ got' = [got EXCEPT ![m] =
                 IF ~db.table THEN [called |-> TRUE, schema |-> ZeroSchemaVersion, err |-> Nil]
                 ELSE [called |-> TRUE, schema |-> CurrentVersion(db), err |-> Nil]]
    /\ UNCHANGED Others

\* m.CurrentSchemaVersion(ctx), called between Apply calls: the query fails
\* when the version table does not exist
CurrentSchemaVersion(m) ==
    /\ pc[m] \in {"idle", "done"}
    /\ got' = [got EXCEPT ![m] =
                 IF ~db.table THEN [called |-> TRUE, schema |-> ZeroSchemaVersion, err |-> QueryErr]
                 ELSE [called |-> TRUE, schema |-> CurrentVersion(db), err |-> Nil]]
    /\ UNCHANGED Others

\* The checksum texts the dialect acceptance test saves
TestChecksum == <<Ch("k")>>
TestChecksums == {TestChecksum, <<Ch("l")>>}

\* TestDialect: schemaops.CreateTable on the database itself
EnsureTable ==
    /\ \A m \in Migrators : pc[m] \in {"idle", "done"}
    /\ db' = CreateTable(db)
    /\ UNCHANGED <<pc, cfg, migrations, schema, idx, n, tx, retErr, ret, pre, log, kind, first, plain, got>>

\* TestDialect: schemaops.SaveVersion on the database itself
WriteVersion(v, c) ==
    /\ \A m \in Migrators : pc[m] \in {"idle", "done"}
    /\ db.table
    /\ db.applied < MaxApplied
    /\ db' = SaveVersion(db, [ID |-> 0, Version |-> v, Checksum |-> c])
    /\ UNCHANGED <<pc, cfg, migrations, schema, idx, n, tx, retErr, ret, pre, log, kind, first, plain, got>>

\* m := migrate.New(db, dialect, migrate.WithTransaction(t)); m.Apply(from)
ApplyPlain(m) ==
    /\ pc[m] = "idle"
    /\ \E migs \in ScriptLists : \E t \in BOOLEAN :
          Begin(m, [DefaultConfig EXCEPT !.withTx = t], migs, "new", NoCall)

\* A database nothing was done to, driven with any dialect
InitAnyDialect ==
    /\ db \in {[EmptyDB EXCEPT !.dialect = d] : d \in Dialects}
    /\ InitMigrators

\* Apply calls and reads of the version follow one another
NextRead ==
    \/ ApplyPlain(1)
    \/ applyMigrations(1)
    \/ Commit(1)
    \/ Rollback(1)
    \/ Return(1)
    \/ CurrentSchemaVersion(1)

ReadSpec == InitAnyDialect /\ [][NextRead]_vars

\* The same, and the store's operations on the database itself
NextStore ==
    \/ ApplyPlain(1)
    \/ applyMigrations(1)
    \/ Commit(1)
    \/ Rollback(1)
    \/ Return(1)
    \/ CurrentSchemaVersion(1)
    \/ EnsureTable
    \/ \E v \in 1..MaxScripts, c \in TestChecksums : WriteVersion(v, c)

StoreSpec == InitAnyDialect /\ [][NextStore]_vars

-----------------------------------------------------------------------------
(* Two Migrators on one database *)

\* m := migrate.New(db, dialect, migrate.WithTransaction(false)); m.Apply(from)
\* with scripts the database accepts, while the other Migrator may be in a
\* call of its own.  Every statement takes effect on the database when it is
\* issued.
ApplyConcurrent(m) ==
    /\ pc[m] = "idle"
    /\ db.applied <= MaxApplied
    /\ \E migs \in {l \in ScriptLists : \A i \in 1..Len(l) : ~ExecFails(l[i])} :
          Begin(m, [DefaultConfig EXCEPT !.withTx = FALSE], migs, "new", NoCall)

\* Nothing orders the steps of the two calls
NextConc ==
    \E m \in Migrators :
        \/ ApplyConcurrent(m)
        \/ applyMigrations(m)
        \/ Return(m)

ConcSpec == Init /\ [][NextConc]_vars

-----------------------------------------------------------------------------
(* Scripts that are reformatted between calls *)

\* The two scripts, each also laid out with other whitespace
ScriptASpaced == <<Ch(" "), Ch("a"), Ch("\n")>>
ScriptBSpaced == <<Ch("b"), Ch("\t")>>
FormatTexts == {ScriptA, ScriptASpaced, ScriptB, ScriptBSpaced}
FormatLists == UNION {[1..k -> FormatTexts] : k \in 0..MaxScripts}

\* m := migrate.New(db, dialect, migrate.WithTransaction(t)); m.Apply(from),
\* the source holding the scripts in whichever layout
ApplyFormatted(m) ==
    /\ pc[m] = "idle"
    /\ \E migs \in FormatLists : \E t \in BOOLEAN :
          Begin(m, [DefaultConfig EXCEPT !.withTx = t], migs, "new", NoCall)

\* Every script executes, so no call rolls back
NextFormat ==
    \/ ApplyFormatted(1)
    \/ applyMigrations(1)
    \/ Commit(1)
    \/ Return(1)

FormatSpec == Init /\ [][NextFormat]_vars

-----------------------------------------------------------------------------
(* Two Migrators with default options and one source *)

\* m := migrate.New(db, dialect); m.Apply(from), the source being the one the
\* other Migrator works on, its scripts valid
ApplyDefault(m) ==
    /\ pc[m] = "idle"
    /\ \E migs \in {l \in ScriptLists : \A i \in 1..Len(l) : ~ExecFails(l[i])} :
          /\ \A o \in Migrators \ {m} : pc[o] # "idle" => migs = migrations[o]
          /\ Begin(m, DefaultConfig, migs, "new", NoCall)

\* m.db.BeginTx returns only after the other Migrator has committed: the
\* transaction, in which nothing was done yet, sees that commit, while the
\* version was read before it
BeginTxLater(m) ==
    /\ pc[m] = "apply"
    /\ cfg[m].withTx
    /\ n[m] = 0 /\ idx[m] = schema[m].Version
    /\ tx[m] # db
    /\ tx' = [tx EXCEPT ![m] = db]
    /\ UNCHANGED <<db, pc, cfg, migrations, schema, idx, n, retErr, ret, pre, log, kind, first, plain, got>>

\* Nothing orders the steps of the two calls; a commit installs what the
\* transaction has written
NextBoth ==
    \E m \in Migrators :
        \/ ApplyDefault(m)
        \/ BeginTxLater(m)
        \/ applyMigrations(m)
        \/ Commit(m)
        \/ Return(m)

BothSpec == Init /\ [][NextBoth]_vars

-----------------------------------------------------------------------------
(* One source applied again and again with changing options *)

\* A source of valid scripts, long enough for a script to lie between two
\* others
LongList == <<ScriptA, ScriptB, ScriptB>>

\* migrate.New with any filter, with and without full reapply
LongConfigs == {c \in Configs(Len(LongList)) : c.withChecksumValidation /\ c.withTx}

\* m := migrate.New(db, dialect, opts...); m.Apply(from)
ApplyLong(m) ==
    /\ pc[m] = "idle"
    /\ \E c \in LongConfigs : Begin(m, c, LongList, "new", NoCall)

\* A Migrator made with other options applies the same source.  The call
\* remembered is the one that just returned or the one remembered before,
\* and kind tells whether a call in full-reapply mode ran since.
ApplyLater(m) ==
    /\ pc[m] = "done"
    /\ \E c \in LongConfigs : \E fresh \in BOOLEAN :
          IF fresh \/ kind[m] = "new"
          THEN Begin(m, c, migrations[m], "later", ThisCall(m))
          ELSE Begin(m, c, migrations[m],
                     IF cfg[m].reapplyAll \/ kind[m] = "reapplied" THEN "reapplied" ELSE "later",
                     first[m])

\* Every script executes, so no call rolls back; the caller keeps the
\* Migrator's source for the next call
NextLong ==
    \/ ApplyLong(1)
    \/ ApplyLater(1)
    \/ applyMigrations(1)
    \/ Commit(1)

LongSpec == Init /\ [][NextLong]_vars

-----------------------------------------------------------------------------
(* What the properties speak about *)

\* The persisted (version, checksum) record, as found in the table; no row
\* counts as version 0 with an empty checksum
Record(d) ==
    IF d.rows = {} THEN [Version |-> 0, Checksum |-> << >>]
    ELSE LET r == CHOOSE r \in d.rows : TRUE
         IN  [Version |-> r.Version, Checksum |-> r.Checksum]

Returned(m) == pc[m] = "done"

\* The migration numbers of the scripts the call executed successfully, in order
ExecSeq(m) ==
    LET ok == SelectSeq(log[m], LAMBDA e : e.op = "exec")
    IN  [k \in 1..Len(ok) |-> ok[k].num]

\* A script of the call failed to execute
ExecFailed(m) == \E k \in 1..Len(log[m]) : log[m][k].op = "execfail"

\* <<a, a + 1, ..., b>>
Range(a, b) == [k \in 1..(b + 1 - a) |-> a + k - 1]

AllValid(migs) == \A k \in 1..Len(migs) : ~ExecFails(migs[k])

\* The list differs from the list the record was computed from in the content
\* of one of the first v scripts
Altered(migs, basis, v) ==
    \E k \in 1..v : k <= Len(migs) /\ k <= Len(basis) /\ normalize(migs[k]) # normalize(basis[k])

-----------------------------------------------------------------------------
(* C1 *)

\* C1 (atomic rollback): when a call in transactional mode has returned after
\* one of its selected scripts failed to execute, it returned an execution
\* error and the count 0, and the persisted (version, checksum) record and the
\* script effects in the database are what they were before the call, however
\* many scripts of the call had succeeded before the failure.
C1_AtomicRollback ==
    \A m \in Migrators :
        (Returned(m) /\ cfg[m].withTx /\ ExecFailed(m)) =>
            /\ ret[m].err.kind = "exec"
            /\ ret[m].n = 0
            /\ Record(db) = Record(pre[m])
            /\ db.applied = pre[m].applied

\* A transactional call that failed at its second selected script, after the
\* first had succeeded, on a database an earlier call had brought to version 1
C1_Witness ==
    \E m \in Migrators :
        /\ Returned(m) /\ cfg[m].withTx /\ ExecFailed(m)
        /\ n[m] >= 1
        /\ Record(pre[m]).Version = 1

-----------------------------------------------------------------------------
(* C2 *)

\* C2 as stated (idempotence in every configuration): when the same Migrator
\* has applied the same list of length >= 1 a second time in a row, the second
\* call applied 0 scripts and left the persisted version unchanged.
C2_Original ==
    \A m \in Migrators :
        (Returned(m) /\ kind[m] = "again" /\ Len(migrations[m]) >= 1) =>
            /\ ret[m].n = 0
            /\ Record(db).Version = Record(pre[m]).Version

\* C2 (idempotence, amended): the same, for a Migrator that is not in
\* full-reapply mode; the second call also left no further script effect in
\* the database and left the checksum unchanged.
C2_Idempotence ==
    \A m \in Migrators :
        (Returned(m) /\ kind[m] = "again" /\ Len(migrations[m]) >= 1
            /\ ~cfg[m].reapplyAll) =>
            /\ ret[m].n = 0
            /\ db.applied = pre[m].applied
            /\ Record(db) = Record(pre[m])

\* A second application of a list whose first application had applied scripts
\* and had left a script of the list unapplied
C2_Witness ==
    \E m \in Migrators :
        /\ Returned(m) /\ kind[m] = "again" /\ ~cfg[m].reapplyAll
        /\ first[m].ret.n >= 1
        /\ Record(db).Version < Len(migrations[m])

-----------------------------------------------------------------------------
(* C3 *)

\* C3 (monotonic progress): a call with the default configuration that
\* returns without error (all of its scripts executed successfully) leaves the
\* persisted version equal to the length N of its list; on a database at
\* version 0 a list of valid scripts is applied without error, all N of them;
\* and when the same list is then applied again, that call returns without
\* error too and the version is still N.
C3_MonotonicProgress ==
    \A m \in Migrators :
        (Returned(m) /\ cfg[m] = DefaultConfig) =>
            /\ (ret[m].err = Nil => Record(db).Version = Len(migrations[m]))
            /\ (Record(pre[m]).Version = 0 /\ AllValid(migrations[m])) =>
                    (ret[m].err = Nil /\ ret[m].n = Len(migrations[m]))
            /\ (kind[m] = "again" /\ first[m].ret.err = Nil) =>
                    /\ ret[m].err = Nil
                    /\ Record(pre[m]).Version = Len(migrations[m])
                    /\ Record(db).Version = Len(migrations[m])

\* The second of two default applications of a list of MaxScripts valid
\* scripts, the first of which applied them all
C3_Witness ==
    \E m \in Migrators :
        /\ Returned(m) /\ cfg[m] = DefaultConfig /\ kind[m] = "again"
        /\ Len(migrations[m]) = MaxScripts
        /\ first[m].ret = [n |-> MaxScripts, err |-> Nil]
        /\ Record(db).Version = MaxScripts

-----------------------------------------------------------------------------
(* C4 *)

\* C4 (incremental apply): when a call with the default configuration has
\* returned, on a database that was at version v with a record computed from
\* the first v scripts of the call's list, and the k scripts of the list after
\* the first v are valid, then the call executed exactly those k scripts in
\* order (none of the first v), returned k without error and left the
\* persisted version at v + k.
C4_IncrementalApply ==
    \A m \in Migrators :
        LET v == Record(pre[m]).Version
            N == Len(migrations[m])
        IN  (/\ Returned(m) /\ cfg[m] = DefaultConfig
             /\ v <= N
             /\ pre[m].basis = SubSeq(migrations[m], 1, v)
             /\ \A k \in (v + 1)..N : ~ExecFails(migrations[m][k])) =>
                /\ ExecSeq(m) = Range(v + 1, N)
                /\ ret[m] = [n |-> N - v, err |-> Nil]
                /\ Record(db).Version = N

\* A list of one script was applied, and a default call with that list
\* extended by one valid script has returned
C4_Witness ==
    \E m \in Migrators :
        /\ Returned(m) /\ cfg[m] = DefaultConfig
        /\ Record(pre[m]).Version = 1 /\ pre[m].applied = 1
        /\ Len(migrations[m]) = 2
        /\ pre[m].basis = SubSeq(migrations[m], 1, 1)
        /\ ExecSeq(m) = <<2>>

-----------------------------------------------------------------------------
(* C5 *)

\* C5 (checksum drift detection): when a call with checksum validation
\* enabled has returned, on a database that was at version v >= 1, and the
\* call's list (of at least v scripts) differs in the content of one of its
\* first v scripts from the list the record was computed from, then the call
\* returned an integrity error and the count 0, executed no script, and the
\* persisted version and checksum are unchanged.
C5_DriftDetected ==
    \A m \in Migrators :
        LET v == Record(pre[m]).Version
        IN  (/\ Returned(m) /\ cfg[m].withChecksumValidation
             /\ v >= 1 /\ Len(migrations[m]) >= v
             /\ Altered(migrations[m], pre[m].basis, v)) =>
                /\ ret[m] = [n |-> 0, err |-> Err("integrity", v)]
                /\ ExecSeq(m) = << >> /\ ~ExecFailed(m)
                /\ Record(db) = Record(pre[m])
                /\ db.applied = pre[m].applied

\* Two scripts were applied, and a validating call whose list differs in the
\* first of them only has returned
C5_Witness ==
    \E m \in Migrators :
        /\ Returned(m) /\ cfg[m].withChecksumValidation
        /\ Record(pre[m]).Version = 2 /\ Len(migrations[m]) >= 2
        /\ normalize(migrations[m][1]) # normalize(pre[m].basis[1])
        /\ normalize(migrations[m][2]) = normalize(pre[m].basis[2])
        /\ ret[m].err.kind = "integrity"

-----------------------------------------------------------------------------
(* C6 *)

\* C6 as stated: when a call with checksum validation disabled has returned,
\* on a database at version v, with a list of exactly v scripts that differs
\* in content from the list the record was computed from, it returned 0
\* without error and the persisted version is unchanged.
C6_Original ==
    \A m \in Migrators :
        LET v == Record(pre[m]).Version
        IN  (/\ Returned(m) /\ ~cfg[m].withChecksumValidation
             /\ Len(migrations[m]) = v
             /\ Altered(migrations[m], pre[m].basis, v)) =>
                /\ ret[m] = [n |-> 0, err |-> Nil]
                /\ Record(db).Version = v

\* C6 (amended): the same for a call that is not in full-reapply mode; such a
\* call also executes no script and leaves the stored checksum as it was.
C6_NoValidation ==
    \A m \in Migrators :
        LET v == Record(pre[m]).Version
        IN  (/\ Returned(m) /\ ~cfg[m].withChecksumValidation /\ ~cfg[m].reapplyAll
             /\ Len(migrations[m]) = v
             /\ Altered(migrations[m], pre[m].basis, v)) =>
                /\ ret[m] = [n |-> 0, err |-> Nil]
                /\ ExecSeq(m) = << >> /\ ~ExecFailed(m)
                /\ Record(db) = Record(pre[m])

\* Two scripts were applied, and a call without validation and without full
\* reapply, whose list of two differs in content, has returned
C6_Witness ==
    \E m \in Migrators :
        /\ Returned(m) /\ ~cfg[m].withChecksumValidation /\ ~cfg[m].reapplyAll
        /\ Record(pre[m]).Version = 2 /\ Len(migrations[m]) = 2
        /\ Altered(migrations[m], pre[m].basis, 2)

-----------------------------------------------------------------------------
(* C7 *)

\* The first call of C7: two valid scripts, a filter that excludes migration
\* number 1 only, a database nothing was applied to
C7_Case(call) ==
    /\ Len(call.migrations) = 2 /\ AllValid(call.migrations)
    /\ call.cfg = [DefaultConfig EXCEPT !.migrationFilter = {1}]
    /\ Record(call.pre).Version = 0 /\ call.pre.applied = 0

\* C7 as stated: that call leaves the persisted version at 0, and the
\* unfiltered call with the same list that follows it executes exactly script
\* 2 and leaves the version at 2.
C7_Original ==
    \A m \in Migrators :
        /\ (Returned(m) /\ C7_Case(ThisCall(m))) => Record(db).Version = 0
        /\ (Returned(m) /\ kind[m] = "unfiltered" /\ C7_Case(first[m])) =>
                (ExecSeq(m) = <<2>> /\ Record(db).Version = 2)

\* C7 (filter exclusion, amended): that call executes script 2 only, returns
\* 1 and leaves the persisted version at 2; the unfiltered call with the same
\* list that follows it executes nothing, returns 0 and leaves the version at
\* 2, so that script 1 is not applied by either call.
C7_FilterExclusion ==
    \A m \in Migrators :
        /\ (Returned(m) /\ C7_Case(ThisCall(m))) =>
                /\ ExecSeq(m) = <<2>>
                /\ ret[m] = [n |-> 1, err |-> Nil]
                /\ Record(db).Version = 2
        /\ (Returned(m) /\ kind[m] = "unfiltered" /\ C7_Case(first[m])) =>
                /\ ExecSeq(m) = << >>
                /\ ret[m] = [n |-> 0, err |-> Nil]
                /\ Record(db).Version = 2
                /\ db.applied = 1

\* The unfiltered call that follows the filtered one has returned
C7_Witness ==
    \E m \in Migrators :
        Returned(m) /\ kind[m] = "unfiltered" /\ C7_Case(first[m])

-----------------------------------------------------------------------------
(* C8 *)

\* The migration numbers in v+1..N the filter returns true for
Accepted(c, v, N) == {k \in (v + 1)..N : k \notin c.migrationFilter}

Highest(S) == CHOOSE k \in S : \A j \in S : j <= k

\* C8, count and version: a call without full reapply that returned without
\* error, from persisted version v over N scripts, returned the number of
\* accepted migration numbers in v+1..N and left the version at the highest
\* of them, at v when there is none.
C8_CountAndVersion(m) ==
    LET v == Record(pre[m]).Version
        N == Len(migrations[m])
        acc == Accepted(cfg[m], v, N)
    IN  (Returned(m) /\ ret[m].err = Nil /\ ~cfg[m].reapplyAll) =>
            /\ ret[m].n = Cardinality(acc)
            /\ Record(db).Version = IF acc = {} THEN v ELSE Highest(acc)

\* The unfiltered call that follows such a call with the same list
C8_Later(m) ==
    /\ Returned(m) /\ kind[m] = "unfiltered"
    /\ first[m].ret.err = Nil /\ ~first[m].cfg.reapplyAll

-----------------------------------------------------------------------------
(* C9 *)

\* C9 as stated (version-count invariant): in every reachable state the
\* persisted version equals the number of script executions whose effect is
\* in the database.
C9_Original == Record(db).Version = db.applied

\* C9 (amended): the same, as long as no call so far used a filter that
\* rejects a migration number or full-reapply mode.
C9_VersionCount == plain => Record(db).Version = db.applied

\* MaxScripts scripts were applied by such calls
C9_Witness ==
    /\ plain
    /\ db.applied = MaxScripts
    /\ Record(db).Version = MaxScripts

-----------------------------------------------------------------------------
(* C10 *)

\* C10 as stated (checksum invariant): after any call that returns without
\* error the persisted checksum is chain[version], the chain being that of the
\* list passed to the call.
C10_Original ==
    \A m \in Migrators :
        (Returned(m) /\ ret[m].err = Nil) =>
            /\ Record(db).Version <= Len(migrations[m])
            /\ Record(db).Checksum = checksumHistory(migrations[m])[Record(db).Version]

\* C10 (amended): the same after any call that returns without error and
\* either had checksum validation enabled or applied at least one script.
C10_ChecksumInvariant ==
    \A m \in Migrators :
        (Returned(m) /\ ret[m].err = Nil
            /\ (cfg[m].withChecksumValidation \/ ret[m].n >= 1)) =>
            /\ Record(db).Version <= Len(migrations[m])
            /\ Record(db).Checksum = checksumHistory(migrations[m])[Record(db).Version]

\* A call without validation has applied a script of a list that differs in
\* content from the list the record had been computed from
C10_Witness ==
    \E m \in Migrators :
        /\ Returned(m) /\ ret[m].err = Nil
        /\ ~cfg[m].withChecksumValidation /\ ret[m].n >= 1
        /\ Record(pre[m]).Version >= 1
        /\ Altered(migrations[m], pre[m].basis, Record(pre[m]).Version)

-----------------------------------------------------------------------------
(* C11 *)

\* The call began a transaction
Began(m) == \E k \in 1..Len(log[m]) : log[m][k].op = "begin"

\* The call wrote the version record
Saved(m) == \E k \in 1..Len(log[m]) : log[m][k].op = "save"

\* C11 (version overrun): when a call has returned, on a database whose
\* persisted version was greater than the number of scripts in the call's
\* list, it returned an overrun error and the count 0, executed no script,
\* began no transaction, and the persisted record and the script effects are
\* what they were, whatever the configuration.
C11_VersionOverrun ==
    \A m \in Migrators :
        (Returned(m) /\ Record(pre[m]).Version > Len(migrations[m])) =>
            /\ ret[m] = [n |-> 0, err |-> Err("overrun", Record(pre[m]).Version)]
            /\ ExecSeq(m) = << >> /\ ~ExecFailed(m)
            /\ ~Began(m) /\ ~Saved(m)
            /\ Record(db) = Record(pre[m])
            /\ db.applied = pre[m].applied

\* A call in full-reapply mode with validation disabled has returned, on a
\* database whose version was above the length of its non-empty list
C11_Witness ==
    \E m \in Migrators :
        /\ Returned(m) /\ Record(pre[m]).Version > Len(migrations[m])
        /\ cfg[m].reapplyAll /\ ~cfg[m].withChecksumValidation
        /\ Len(migrations[m]) >= 1

-----------------------------------------------------------------------------
(* C12 *)

\* C12 (up to date is side-effect free): when a call that is not in
\* full-reapply mode has returned, on a database whose persisted version
\* equalled the number of scripts in its list, and validation did not fail,
\* then it returned (0, nil), executed no script, did not write the version
\* record, began no transaction, and the record and the script effects are
\* what they were.
C12_UpToDateNoEffect ==
    \A m \in Migrators :
        (/\ Returned(m) /\ ~cfg[m].reapplyAll
         /\ Record(pre[m]).Version = Len(migrations[m])
         /\ ret[m].err.kind # "integrity") =>
            /\ ret[m] = [n |-> 0, err |-> Nil]
            /\ ExecSeq(m) = << >> /\ ~ExecFailed(m)
            /\ ~Saved(m) /\ ~Began(m)
            /\ Record(db) = Record(pre[m])
            /\ db.applied = pre[m].applied

\* A transactional call with validation enabled has returned, on a database
\* at version MaxScripts with a list of MaxScripts scripts
C12_Witness ==
    \E m \in Migrators :
        /\ Returned(m) /\ ~cfg[m].reapplyAll
        /\ cfg[m].withTx /\ cfg[m].withChecksumValidation
        /\ Record(pre[m]).Version = MaxScripts /\ Len(migrations[m]) = MaxScripts
        /\ ret[m].err = Nil

-----------------------------------------------------------------------------
(* C13 *)

\* C13 (non-transactional partial persistence): when a call with transactions
\* disabled has returned after a selected script failed to execute, and
\* selected scripts of the call had succeeded before it, then the call
\* returned an execution error, the effects of those earlier scripts are in
\* the database, and the persisted version and checksum are those written for
\* the last of them: its migration number and the chain entry of that number.
C13_PartialPersistence ==
    \A m \in Migrators :
        (Returned(m) /\ ~cfg[m].withTx /\ ExecFailed(m) /\ ExecSeq(m) # << >>) =>
            LET last == ExecSeq(m)[Len(ExecSeq(m))]
            IN  /\ ret[m].err.kind = "exec"
                /\ ret[m].n = Len(ExecSeq(m))
                /\ db.applied = pre[m].applied + Len(ExecSeq(m))
                /\ Record(db) = [Version |-> last,
                                 Checksum |-> checksumHistory(migrations[m])[last]]

\* A non-transactional call on a database at version 0 has applied its first
\* script, failed at its second, and left version 1
C13_Witness ==
    \E m \in Migrators :
        /\ Returned(m) /\ ~cfg[m].withTx /\ ExecFailed(m)
        /\ Record(pre[m]).Version = 0
        /\ ExecSeq(m) = <<1>>
        /\ Record(db).Version = 1

-----------------------------------------------------------------------------
(* C14 *)

\* C14 (full reapply): when a call in full-reapply mode with the accept-all
\* filter has returned, on a database at version N with a record computed from
\* the call's list of N valid scripts, it executed all N scripts in order from
\* the first, returned N without error, and the persisted version is N.
C14_FullReapply ==
    \A m \in Migrators :
        LET N == Len(migrations[m])
        IN  (/\ Returned(m) /\ cfg[m].reapplyAll
             /\ cfg[m].migrationFilter = AcceptAll
             /\ Record(pre[m]).Version = N
             /\ pre[m].basis = migrations[m]
             /\ AllValid(migrations[m])) =>
                /\ ExecSeq(m) = Range(1, N)
                /\ ret[m] = [n |-> N, err |-> Nil]
                /\ Record(db).Version = N
                /\ db.applied = pre[m].applied + N

\* Such a call has returned, on a database on which the one script of its
\* list had been applied
C14_Witness ==
    \E m \in Migrators :
        /\ Returned(m) /\ cfg[m].reapplyAll
        /\ cfg[m].migrationFilter = AcceptAll
        /\ Len(migrations[m]) >= 1
        /\ Record(pre[m]).Version = Len(migrations[m])
        /\ pre[m].applied = Len(migrations[m])
        /\ pre[m].basis = migrations[m]
        /\ ExecSeq(m) = Range(1, Len(migrations[m]))

-----------------------------------------------------------------------------
(* C15 *)

\* The call issued a statement of the given kind
Issued(m, op) == \E k \in 1..Len(log[m]) : log[m][k].op = op

\* C15 (rollback failure): when a transactional call has returned after its
\* batch failed and the rollback failed too, it returned the count 0 and an
\* error that reports both the rollback error and the error the batch failed
\* with.
C15_BothErrorsReported ==
    \A m \in Migrators :
        (Returned(m) /\ Issued(m, "rollbackfail")) =>
            /\ ret[m].n = 0
            /\ ret[m].err.kind = "join"
            /\ retErr[m] # Nil
            /\ \E k \in 1..Len(ret[m].err.errs) : ret[m].err.errs[k] = RollbackErr
            /\ \E k \in 1..Len(ret[m].err.errs) : ret[m].err.errs[k] = retErr[m]

\* The second script of a transactional call failed to execute and the
\* rollback failed
C15_Witness ==
    \E m \in Migrators :
        /\ Returned(m) /\ Issued(m, "rollbackfail")
        /\ retErr[m] = Err("exec", 2)

-----------------------------------------------------------------------------
(* C16 *)

\* After the call began its transaction it issued a commit or a rollback on it
Ended(m) ==
    \E j, k \in 1..Len(log[m]) :
        /\ j < k
        /\ log[m][j].op = "begin"
        /\ log[m][k].op \in {"commit", "commitfail", "rollback", "rollbackfail"}
        /\ log[m][k].via = "tx"

\* C16 (no dangling transaction): when a call that began a transaction has
\* returned, whether it succeeded or a script, a version write, the commit or
\* the rollback failed, it had issued a commit or a rollback on that
\* transaction, and the transaction is no longer open.
C16_NoDanglingTx ==
    \A m \in Migrators :
        (Returned(m) /\ Began(m)) => (Ended(m) /\ tx[m] = NoTx)

\* A call has returned whose version write failed after an earlier script of
\* the call had been applied
C16_Witness ==
    \E m \in Migrators :
        /\ Returned(m) /\ Began(m)
        /\ Issued(m, "savefail") /\ Issued(m, "save")

-----------------------------------------------------------------------------
(* C17 *)

\* C17 (source error): when a call has returned because listing the source
\* failed, it returned the count 0 and the listing error, it issued no
\* statement, and the database is as it was: the version table is not created
\* and no version record is written.
C17_SourceError ==
    \A m \in Migrators :
        (Returned(m) /\ ret[m].err = ListErr) =>
            /\ ret[m].n = 0
            /\ log[m] = << >>
            /\ db = pre[m]

\* Such a call has returned on a database that has no version table
C17_Witness ==
    \E m \in Migrators :
        /\ Returned(m) /\ ret[m].err = ListErr
        /\ ~db.table

-----------------------------------------------------------------------------
(* C18 *)

\* The step is a CurrentSchemaVersion call of Migrator m that returns
Reads(m) == got'[m] # got[m]

ReturnsZero(g) == g.err = Nil /\ g.schema = ZeroSchemaVersion

\* C18 as stated: a CurrentSchemaVersion call changes nothing in the
\* database, and whenever the version table holds no row for it to read it
\* returns version 0 with an empty checksum and no error.
C18_Original ==
    [][\A m \in Migrators :
          Reads(m) => (db' = db /\ (db.rows = {} => ReturnsZero(got'[m])))]_vars

\* C18 (amended): a CurrentSchemaVersion call changes nothing in the database,
\* and whenever the version table exists and holds no row it returns version 0
\* with an empty checksum and no error.
C18_ReadOnlyAbsentIsZero ==
    [][\A m \in Migrators :
          Reads(m) => (db' = db /\ ((db.table /\ db.rows = {}) => ReturnsZero(got'[m])))]_vars

\* CurrentSchemaVersion has returned version 0 without error on a database
\* whose version table exists and holds no row
C18_Witness ==
    \E m \in Migrators :
        /\ got[m].called /\ ReturnsZero(got[m])
        /\ db.table /\ db.rows = {}

-----------------------------------------------------------------------------
(* C19 *)

\* C19 (no version table): a CurrentSchemaVersion call returns an error
\* exactly when the version table does not exist, and the table comes into
\* being only in a step in which an Apply call starts; so the call returns a
\* version without error only after an Apply call has created the table.
C19_ErrorBeforeFirstApply ==
    [][/\ \A m \in Migrators : Reads(m) => (got'[m].err # Nil <=> ~db.table)
       /\ (~db.table /\ db'.table) => \E m \in Migrators : pc[m] = "idle" /\ pc'[m] # "idle"]_vars

\* CurrentSchemaVersion has returned an error on a database on which no Apply
\* call was made
C19_Witness ==
    \E m \in Migrators :
        /\ got[m].called /\ got[m].err = QueryErr
        /\ ~db.table

-----------------------------------------------------------------------------
(* C20 *)

Singleton(d) ==
    /\ Cardinality(d.rows) <= 1
    /\ \A r \in d.rows : r.ID = 0

\* C20 (singleton row): after any sequence of table creations, version saves
\* and Apply calls the version table holds at most one row, the row with id 0,
\* in the database and in the view of every open transaction.
C20_SingletonRow ==
    /\ Singleton(db)
    /\ \A m \in Migrators : tx[m] # NoTx => Singleton(tx[m])

\* On a database driven with an upserting dialect, MaxScripts scripts were
\* applied and the version was saved after each
C20_Witness ==
    /\ db.dialect = "upsert"
    /\ db.rows = {[ID |-> 0, Version |-> MaxScripts,
                   Checksum |-> checksumHistory(db.basis)[Len(db.basis)]]}
    /\ Len(db.basis) = MaxScripts
    /\ db.applied = MaxScripts

-----------------------------------------------------------------------------
(* C21 *)

\* C21 (write/read round trip): in every step that saves a version v with a
\* checksum c on the database itself, once the table was ensured, the read of
\* the current version that follows returns the row (id 0, v, c), whatever
\* had been saved before.
C21_WriteReadRoundTrip ==
    [][\A v \in 1..MaxScripts, c \in TestChecksums :
          WriteVersion(v, c) =>
              CurrentVersion(db') = [ID |-> 0, Version |-> v, Checksum |-> c]]_vars

\* Version MaxScripts was saved with the second test checksum on a database
\* no script was applied to
C21_Witness ==
    /\ db.applied = 0
    /\ db.rows = {[ID |-> 0, Version |-> MaxScripts, Checksum |-> <<Ch("l")>>]}

-----------------------------------------------------------------------------
(* C22 *)

\* The step starts an Apply call of Migrator m that gets as far as ensuring
\* the version table
Ensures(m) == pc[m] = "idle" /\ pc'[m] # "idle" /\ log'[m] # << >>

\* C22 (ensureTable is idempotent): with a stock dialect, the step in which
\* an Apply call ensures the version table leaves the table in place; when
\* the table was not there the row it then holds is (0, 0, empty checksum),
\* and when the table was there its row is left as it was: version and
\* checksum are not reset.  Ensuring twice is the same as ensuring once.
C22_EnsureTableIdempotent ==
    [][\A m \in Migrators :
          Ensures(m) =>
              /\ db'.table
              /\ ~db.table => db'.rows = {ZeroSchemaVersion}
              /\ db.table => db'.rows = db.rows
              /\ CreateTable(db') = db']_vars

\* An Apply call has ensured the table of a database that was at version
\* MaxScripts, and the version is still MaxScripts
C22_Witness ==
    \E m \in Migrators :
        /\ pc[m] = "done" /\ log[m] # << >> /\ log[m][1].op = "create"
        /\ Record(pre[m]).Version = MaxScripts
        /\ Record(db).Version = MaxScripts

-----------------------------------------------------------------------------
(* C23 *)

\* C23 (concurrent calls race on the version row): a call takes no lock and
\* reads the version once.  Whatever the other Migrator has written since, it
\* executes the scripts that follow the version it read, in order, and it
\* fails with an overrun or an integrity error exactly when the record it
\* read overruns or contradicts its list.  The interleavings of the claim are
\* those of C23_Witness.
C23_ActsOnItsOneRead ==
    \A m \in Migrators :
        LET v == schema[m].Version
            N == Len(migrations[m])
        IN  /\ pc[m] # "idle" =>
                  ExecSeq(m) = Range(v + 1, v + Len(ExecSeq(m)))
            /\ Returned(m) =>
                  /\ ret[m].err.kind = "overrun" <=> v > N
                  /\ ret[m].err.kind = "integrity" <=>
                        /\ v <= N /\ v >= 1 /\ cfg[m].withChecksumValidation
                        /\ schema[m].Checksum # checksumHistory(migrations[m])[v]

\* Both interleavings have happened.  Scripts were executed that the other
\* Migrator had already applied: more executions than the version counts, in
\* calls that skip nothing and reapply nothing.  And Migrator m has failed
\* with an integrity error on a record that the other Migrator, whose call is
\* still running, wrote with a different script.
C23_Witness ==
    \E m, o \in Migrators :
        /\ m # o
        /\ plain /\ db.applied > Record(db).Version
        /\ Returned(m) /\ ret[m].err.kind = "integrity"
        /\ pc[o] = "apply" /\ n[o] >= 1 /\ Record(pre[o]).Version = 0
        /\ Record(pre[m]) = Record(db)
        /\ db.basis = SubSeq(migrations[o], 1, idx[o])
        /\ Len(migrations[m]) >= 1
        /\ db.basis[1] # migrations[m][1]

-----------------------------------------------------------------------------
(* C24 *)

\* The chain of the list a call works on follows the recurrence from the
\* given first entry
ChainFrom(migs, first0) ==
    LET chain == checksumHistory(migs)
    IN  /\ DOMAIN chain = 0..Len(migs)
        /\ chain[0] = first0
        /\ \A i \in 1..Len(migs) :
              chain[i] = checksum(chain[i - 1] \o checksum(migs[i]))

\* C24 as stated: chain[0] is the digest of the empty string.
C24_Original ==
    \A m \in Migrators : pc[m] # "idle" => ChainFrom(migrations[m], checksum(<< >>))

\* C24 (checksum chain definition), amended: for a list of length N the chain
\* has the N+1 entries 0..N, chain[0] is the empty string, and
\* chain[i] = digest(chain[i-1] + digest(script[i-1])) for i = 1..N.
C24_ChecksumChain ==
    \A m \in Migrators : pc[m] # "idle" => ChainFrom(migrations[m], << >>)

\* A call on a full list has written the last entry of its chain
C24_Witness ==
    \E m \in Migrators :
        /\ Returned(m) /\ ret[m].err = Nil
        /\ Len(migrations[m]) = MaxScripts
        /\ migrations[m][1] # migrations[m][MaxScripts]
        /\ Record(db).Version = MaxScripts
        /\ Record(db).Checksum = checksumHistory(migrations[m])[MaxScripts]

-----------------------------------------------------------------------------
(* C25 *)

\* s and t are the same text up to whitespace characters
RECURSIVE SameButSpaces(_, _)
SameButSpaces(s, t) ==
    IF s # << >> /\ IsSpace(Head(s)) THEN SameButSpaces(Tail(s), t)
    ELSE IF t # << >> /\ IsSpace(Head(t)) THEN SameButSpaces(s, Tail(t))
    ELSE IF s = << >> \/ t = << >> THEN s = t
    ELSE Head(s) = Head(t) /\ SameButSpaces(Tail(s), Tail(t))

\* The list of the call differs from the scripts that were applied only in
\* whitespace
Reformatted(m) ==
    LET v == Record(pre[m]).Version
    IN  /\ v >= 1 /\ v <= Len(migrations[m])
        /\ Len(pre[m].basis) = v
        /\ \A k \in 1..v : SameButSpaces(pre[m].basis[k], migrations[m][k])

\* C25 (formatting-only edits are not drift): when the applied scripts are
\* replaced by texts that differ from them only in whitespace, the chain
\* entry at the persisted version is unchanged and the call, validation
\* enabled, does not fail with an integrity error.
C25_FormattingIsNotDrift ==
    \A m \in Migrators :
        (pc[m] # "idle" /\ cfg[m].withChecksumValidation /\ Reformatted(m)) =>
            LET v == Record(pre[m]).Version
            IN  /\ checksumHistory(migrations[m])[v] = checksumHistory(pre[m].basis)[v]
                /\ checksumHistory(migrations[m])[v] = Record(pre[m]).Checksum
                /\ Returned(m) => ret[m].err.kind # "integrity"

\* A call whose first script was laid out differently since it was applied
\* went on to apply the next one
C25_Witness ==
    \E m \in Migrators :
        /\ Returned(m) /\ ret[m].err = Nil /\ ret[m].n >= 1
        /\ cfg[m].withChecksumValidation /\ Reformatted(m)
        /\ pre[m].basis[1] # migrations[m][1]

-----------------------------------------------------------------------------
(* C26, C27, C28 *)

\* Positions in the log of the call at which one of the given statements
\* was issued
Ops(m, S) == {k \in 1..Len(log[m]) : log[m][k].op \in S}

\* Executions of scripts and writes of the version, succeeded or failed
Statements == {"exec", "execfail", "save", "savefail"}
Failures == {"execfail", "savefail"}

\* The version the loop of the call starts after
Start(m) == IF cfg[m].reapplyAll THEN 0 ELSE schema[m].Version

\* C26 (one transaction, committed only after all succeeded): in
\* transactional mode the call begins at most one transaction, every script
\* and every version write is issued through it after it began, and a commit
\* is issued at most once, after every selected script was executed and its
\* version written, and never in a call in which a script or a version write
\* failed.
C26_SingleTransaction ==
    \A m \in Migrators :
        (pc[m] # "idle" /\ cfg[m].withTx) =>
            LET begins == Ops(m, {"begin"})
                stmts == Ops(m, Statements)
                commits == Ops(m, {"commit", "commitfail"})
            IN  /\ Cardinality(begins) <= 1
                /\ Cardinality(commits) <= 1
                /\ \A k \in stmts : log[m][k].via = "tx" /\ \E b \in begins : b < k
                /\ \A j \in commits :
                      /\ Ops(m, Failures) = {}
                      /\ \A k \in stmts : k < j
                      /\ \A num \in Accepted(cfg[m], Start(m), Len(migrations[m])) :
                            \E k, l \in stmts :
                                /\ k < l
                                /\ log[m][k] = Event("exec", num, "tx")
                                /\ log[m][l] = Event("save", num, "tx")

\* A transactional call has committed a batch of MaxScripts scripts
C26_Witness ==
    \E m \in Migrators :
        /\ Returned(m) /\ cfg[m].withTx /\ ret[m].err = Nil
        /\ ret[m].n = MaxScripts
        /\ Ops(m, {"commit"}) # {}
        /\ Cardinality(Ops(m, {"save"})) = MaxScripts

\* C27 (the first failure aborts the batch): in both modes, once the
\* execution of a script or its version write has failed, the call executes
\* no further script and writes no further version, and the script that
\* failed is executed no second time.
C27_FirstFailureAborts ==
    \A m \in Migrators :
        \A k \in Ops(m, Failures) :
            /\ \A l \in Ops(m, Statements) : l <= k
            /\ Cardinality({l \in Ops(m, {"exec", "execfail"}) :
                               log[m][l].num = log[m][k].num}) = 1

\* A call without transaction has returned after its first script failed,
\* a script that would have run still ahead of it
C27_Witness ==
    \E m \in Migrators :
        /\ Returned(m) /\ ~cfg[m].withTx
        /\ \E k \in Ops(m, {"execfail"}) : log[m][k].num = 1
        /\ Len(migrations[m]) = MaxScripts
        /\ MaxScripts \notin cfg[m].migrationFilter
        /\ ~ExecFails(migrations[m][MaxScripts])

\* C28 (per-migration ordering): the selected scripts are executed in
\* strictly increasing order of the list, none that the filter accepts being
\* passed over; a script is executed, then the record (i+1, chain[i+1]) is
\* written, and only then the next script is executed; no version is written
\* for a script whose execution failed.
C28_PerMigrationOrder ==
    \A m \in Migrators :
        pc[m] # "idle" =>
            LET st == SelectSeq(log[m], LAMBDA e : e.op \in Statements)
                ran == {st[k].num : k \in {j \in 1..Len(st) : st[j].op \in {"exec", "execfail"}}}
                chain == checksumHistory(migrations[m])
                last == log[m][Len(log[m])]
            IN  /\ \A k \in 1..Len(st) :
                      /\ st[k].op \in {"exec", "execfail"} =>
                            \A j \in 1..(k - 1) : st[j].num < st[k].num
                      /\ st[k].op = "exec" =>
                            /\ k < Len(st)
                            /\ st[k + 1].op \in {"save", "savefail"}
                            /\ st[k + 1].num = st[k].num
                      /\ st[k].op \in {"save", "savefail"} =>
                            /\ k > 1
                            /\ st[k - 1].op = "exec"
                            /\ st[k - 1].num = st[k].num
                      /\ st[k].op = "execfail" =>
                            \A j \in 1..Len(st) :
                                st[j].op \in {"save", "savefail"} => st[j].num # st[k].num
                /\ ran \subseteq Accepted(cfg[m], Start(m), Len(migrations[m]))
                /\ \A a \in Accepted(cfg[m], Start(m), Len(migrations[m])) :
                      (\E e \in ran : a < e) => a \in ran
                /\ (log[m] # << >> /\ last.op = "save") =>
                      Record(View(m)) = [Version |-> last.num, Checksum |-> chain[last.num]]

\* A call is between the version write of its first script and the execution
\* of its next one
C28_Witness ==
    \E m \in Migrators :
        /\ pc[m] = "apply"
        /\ log[m][Len(log[m])] = Event("save", 1, Via(m))
        /\ Len(migrations[m]) = MaxScripts
        /\ NextSelected(cfg[m], migrations[m], idx[m]) < Len(migrations[m])

-----------------------------------------------------------------------------
(* C29 *)

\* The context the scripts of the call are to be executed in
Context(m) == IF cfg[m].withTx THEN "tx" ELSE "db"

\* The call reads the version row once and writes it once for every script
\* it applied
ReadOnceWrittenPerScript(m) ==
    /\ Cardinality(Ops(m, {"read"})) = 1
    /\ Cardinality(Ops(m, {"save"})) = n[m]
    /\ \A k \in Ops(m, {"save"}) :
          /\ k > 1
          /\ log[m][k - 1].op = "exec"
          /\ log[m][k - 1].num = log[m][k].num
          /\ log[m][k - 1].via = log[m][k].via

\* C29 as stated: the read and every write go through the context the
\* scripts are executed in.
C29_Original ==
    \A m \in Migrators :
        (pc[m] # "idle" /\ log[m] # << >>) =>
            /\ ReadOnceWrittenPerScript(m)
            /\ \A k \in Ops(m, {"read", "save", "exec"}) : log[m][k].via = Context(m)

\* C29 (execution context), amended: within one call the version row is read
\* once, through the plain connection and before any transaction is begun,
\* and written once per successfully applied script; every write goes
\* through the context (the transaction in transactional mode, the plain
\* connection otherwise) in which its script was executed.
C29_ExecutionContext ==
    \A m \in Migrators :
        (pc[m] # "idle" /\ log[m] # << >>) =>
            /\ ReadOnceWrittenPerScript(m)
            /\ \A k \in Ops(m, {"read"}) :
                  /\ log[m][k].via = "db"
                  /\ \A b \in Ops(m, {"begin"}) : k < b
            /\ \A k \in Ops(m, {"save", "exec"}) : log[m][k].via = Context(m)

\* A transactional call that read the version and then wrote it for every
\* script of its list
C29_Witness ==
    \E m \in Migrators :
        /\ pc[m] = "commit" /\ cfg[m].withTx
        /\ Ops(m, {"read"}) # {}
        /\ Cardinality(Ops(m, {"save"})) = MaxScripts
        /\ \A k \in Ops(m, {"save"}) : log[m][k].via = "tx"

-----------------------------------------------------------------------------
(* C30 *)

\* The last statement the call issued
LastOp(m) == IF log[m] = << >> THEN "none" ELSE log[m][Len(log[m])].op

\* The call found scripts left to apply
Entered(m) == cfg[m].reapplyAll \/ schema[m].Version < Len(migrations[m])

\* Ways a call that returned has ended
ErrorBefore(m) ==
    /\ ret[m].n = 0
    /\ ret[m].err.kind \in {"list", "overrun", "integrity"}
    /\ Ops(m, Statements \cup {"begin"}) = {}

EndedUpToDate(m) ==
    /\ ret[m] = [n |-> 0, err |-> Nil]
    /\ ~Entered(m)
    /\ LastOp(m) = "read"

Committed(m) ==
    /\ cfg[m].withTx /\ Entered(m)
    /\ LastOp(m) = "commit"
    /\ ret[m] = [n |-> Cardinality(Ops(m, {"save"})), err |-> Nil]

RolledBack(m) ==
    /\ cfg[m].withTx /\ Entered(m)
    /\ LastOp(m) = "rollback"
    /\ ret[m].n = 0
    /\ ret[m].err.kind \in {"exec", "save"}

TxFailed(m) ==
    /\ cfg[m].withTx /\ Entered(m)
    /\ ret[m].n = 0
    /\ \/ LastOp(m) = "beginfail" /\ ret[m].err = BeginErr
       \/ LastOp(m) = "commitfail" /\ ret[m].err = CommitErr
       \/ LastOp(m) = "rollbackfail" /\ ret[m].err.kind = "join"

ReturnedPlain(m) ==
    /\ ~cfg[m].withTx /\ Entered(m)
    /\ Ops(m, {"begin", "commit", "rollback"}) = {}
    /\ ret[m].n = Cardinality(Ops(m, {"save"}))
    /\ \/ ret[m].err = Nil /\ Ops(m, Failures) = {}
       \/ ret[m].err.kind \in {"exec", "save"} /\ LastOp(m) \in Failures

\* Exactly one of the outcomes holds
ExactlyOne(outcomes) == Cardinality({k \in DOMAIN outcomes : outcomes[k]}) = 1

\* The apply phase comes after the table was ensured, the version read and
\* the record validated against the list, in that order
Ordered(m) ==
    \A k \in Ops(m, Statements \cup {"begin", "beginfail"}) :
        /\ k > 2
        /\ log[m][1].op = "create"
        /\ log[m][2].op = "read"
        /\ schema[m].Version <= Len(migrations[m])
        /\ (cfg[m].withChecksumValidation /\ schema[m].Version >= 1) =>
              schema[m].Checksum = checksumHistory(migrations[m])[schema[m].Version]

Terminates == \A m \in Migrators : pc[m] \in {"apply", "commit", "rollback"} ~> pc[m] = "done"

\* C30 as stated: the call ends with an error before the apply phase, up to
\* date, committed or rolled back.
C30_Original ==
    /\ [](\A m \in Migrators :
            /\ Returned(m) =>
                  ExactlyOne(<<ErrorBefore(m), EndedUpToDate(m), Committed(m), RolledBack(m)>>)
            /\ Ordered(m))
    /\ Terminates

\* C30 (termination and outcome), amended: every call terminates and ends in
\* exactly one outcome: an error before the apply phase, up to date with
\* (0, nil), committed with the applied count, rolled back with the error
\* and count 0, (0, error) when beginning the transaction, the commit or the
\* rollback itself failed, or, without transaction, returned with the applied
\* count and nil or the first error, nothing being committed or rolled back.
\* The apply phase is entered only after the table was ensured, the version
\* read and the checksum validated, in that order.
C30_TerminalOutcome ==
    /\ [](\A m \in Migrators :
            /\ Returned(m) =>
                  ExactlyOne(<<ErrorBefore(m), EndedUpToDate(m), Committed(m), RolledBack(m),
                               TxFailed(m), ReturnedPlain(m)>>)
            /\ Ordered(m))
    /\ Terminates

\* A call without transaction has ended on the error of its second script,
\* the first one applied and counted
C30_Witness ==
    \E m \in Migrators :
        /\ Returned(m) /\ ReturnedPlain(m)
        /\ ret[m].n >= 1
        /\ ret[m].err.kind = "exec"

-----------------------------------------------------------------------------
(* C31 *)

\* C31 as stated: the persisted version after a call is at least the
\* persisted version before it, in any configuration.
C31_Original ==
    \A m \in Migrators :
        Returned(m) => Record(db).Version >= Record(pre[m]).Version

\* C31 (the persisted version never decreases), amended: for any call
\* without full-reapply mode (transactional or not, any filter, succeeding
\* or failing), the persisted version is, at every point of the call and
\* after it, at least the persisted version before it.
C31_VersionNeverDecreases ==
    \A m \in Migrators :
        (pc[m] # "idle" /\ ~cfg[m].reapplyAll) =>
            Record(db).Version >= Record(pre[m]).Version

\* A failing call without transaction on a database that was at version 1
\* has returned
C31_Witness ==
    \E m \in Migrators :
        /\ Returned(m) /\ ~cfg[m].reapplyAll /\ ~cfg[m].withTx
        /\ ret[m].err.kind \in {"exec", "save"}
        /\ Record(pre[m]).Version = 1
        /\ Record(db).Version >= 1

-----------------------------------------------------------------------------
(* C32 *)

\* The call f returned without error, its filter excluding number k and
\* accepting number j, both in its range, k before j
Skipped(f, k, j) ==
    LET start == IF f.cfg.reapplyAll THEN 0 ELSE Record(f.pre).Version
    IN  /\ f.ret.err = Nil
        /\ start < k /\ k < j /\ j <= Len(f.migrations)
        /\ k \in f.cfg.migrationFilter
        /\ j \notin f.cfg.migrationFilter

\* The numbers of the scripts the call has executed or tried to
Ran(m) == {log[m][i].num : i \in Ops(m, {"exec", "execfail"})}

Numbers == 1..Len(LongList)

\* The call that returned skipped k: the version is at least j
SkipRaisesVersion ==
    \A m \in Migrators : \A k, j \in Numbers :
        (Returned(m) /\ Skipped(ThisCall(m), k, j)) => Record(db).Version >= j

\* C32 as stated: no later call without full-reapply mode ever executes a
\* script that an earlier successful call skipped.
C32_Original ==
    /\ SkipRaisesVersion
    /\ \A m \in Migrators : \A k, j \in Numbers :
          (/\ pc[m] # "idle" /\ kind[m] \in {"later", "reapplied"}
           /\ ~cfg[m].reapplyAll
           /\ Skipped(first[m], k, j)) => k \notin Ran(m)

\* C32 (once skipped, never applied), amended: if in one successful call the
\* filter excludes number k and accepts some number j > k in the range, the
\* persisted version becomes at least j, and no later call without
\* full-reapply mode executes script k, as long as no call in between ran in
\* full-reapply mode.
C32_OnceSkippedNeverApplied ==
    /\ SkipRaisesVersion
    /\ \A m \in Migrators : \A k, j \in Numbers :
          (/\ pc[m] # "idle" /\ kind[m] = "later"
           /\ ~cfg[m].reapplyAll
           /\ Skipped(first[m], k, j)) => k \notin Ran(m)

\* After a call that skipped script 1, and one more call in between, an
\* unfiltered call has returned
C32_Witness ==
    \E m \in Migrators :
        /\ Returned(m) /\ kind[m] = "later"
        /\ cfg[m] = DefaultConfig
        /\ Skipped(first[m], 1, Len(LongList))
        /\ first[m].pre # pre[m]
        /\ ret[m] = [n |-> 0, err |-> Nil]

-----------------------------------------------------------------------------
(* C33 *)

\* How many script executions of the call have their effect in the database
Persisting(m) == db.applied - pre[m].applied

\* The last script of the call whose effect is in the database is counted
\* by the persisted version
EffectsRecorded(m) ==
    Persisting(m) >= 1 =>
        /\ Persisting(m) <= Len(ExecSeq(m))
        /\ Record(db).Version >= ExecSeq(m)[Persisting(m)]

\* C33 as stated: whenever a call has returned, in either mode, the
\* persisted version is at least the number of the last script whose effect
\* persists.
C33_Original ==
    \A m \in Migrators : Returned(m) => EffectsRecorded(m)

\* C33 (no script effect without its version record), amended: the same,
\* except that without transaction a version write that fails after its
\* script was executed leaves that script applied but unrecorded; with
\* transaction a failed version write leaves no script of the call applied.
C33_NoEffectWithoutRecord ==
    \A m \in Migrators :
        Returned(m) =>
            /\ (cfg[m].withTx \/ Ops(m, {"savefail"}) = {}) => EffectsRecorded(m)
            /\ (cfg[m].withTx /\ Ops(m, {"savefail"}) # {}) => Persisting(m) = 0

\* A transactional call has returned whose second version write failed, the
\* first script and the second executed before it
C33_Witness ==
    \E m \in Migrators :
        /\ Returned(m) /\ cfg[m].withTx
        /\ \E k \in Ops(m, {"savefail"}) : log[m][k].num = MaxScripts
        /\ Len(ExecSeq(m)) = MaxScripts
        /\ Persisting(m) = 0

-----------------------------------------------------------------------------
(* C34 *)

\* C34 (returned count on failure): a call without transaction that fails
\* returns, with the error, the number of scripts whose execution and
\* version write both completed in the call, and the persisted record is the
\* one the last of them wrote; a call with transaction that fails returns 0.
C34_CountOnFailure ==
    \A m \in Migrators :
        (Returned(m) /\ ret[m].err # Nil) =>
            LET saves == Ops(m, {"save"})
                chain == checksumHistory(migrations[m])
            IN  IF cfg[m].withTx THEN ret[m].n = 0
                ELSE /\ ret[m].n = Cardinality(saves)
                     /\ \A k \in saves :
                           (\A l \in saves : l <= k) =>
                               Record(db) = [Version |-> log[m][k].num,
                                             Checksum |-> chain[log[m][k].num]]

\* A call without transaction has returned 1 with the error of the version
\* write of its second script
C34_Witness ==
    \E m \in Migrators :
        /\ Returned(m) /\ ~cfg[m].withTx
        /\ ret[m].n = 1 /\ ret[m].err.kind = "save"
        /\ Record(db).Version = 1
        /\ db.applied = pre[m].applied + MaxScripts

-----------------------------------------------------------------------------
(* C35 *)

\* C35 (commit failure): when, with transaction, every selected script and
\* version write succeeded but the commit failed, the call returns the commit
\* error with count 0, whatever count was reached in the transaction, and
\* issues nothing after the failed commit, no rollback in particular.
C35_CommitFailure ==
    \A m \in Migrators :
        \A k \in Ops(m, {"commitfail"}) :
            /\ cfg[m].withTx
            /\ Ops(m, Failures) = {}
            /\ n[m] = Cardinality(Ops(m, {"save"}))
            /\ k = Len(log[m])
            /\ Ops(m, {"rollback", "rollbackfail"}) = {}
            /\ Returned(m)
            /\ ret[m] = [n |-> 0, err |-> CommitErr]

\* The commit of a batch of MaxScripts scripts has failed
C35_Witness ==
    \E m \in Migrators :
        /\ Returned(m)
        /\ Ops(m, {"commitfail"}) # {}
        /\ n[m] = MaxScripts
        /\ ret[m].n = 0

-----------------------------------------------------------------------------
(* C36 *)

\* The call has compared the stored checksum: it read the version, did not
\* return at the overrun check, validates, and the version is not 0
Compared(m) ==
    /\ pc[m] # "idle" /\ log[m] # << >>
    /\ ~(Returned(m) /\ ret[m].err.kind = "overrun")
    /\ cfg[m].withChecksumValidation
    /\ schema[m].Version # 0

\* C36 (validation never reads outside the chain): whenever a call compares
\* the stored checksum, the version v it read satisfies 1 <= v <= N, so
\* chain[v] is an entry of the N+1-entry chain; a call that read version 0
\* compares nothing and does not fail the integrity check.
C36_ValidationInsideChain ==
    \A m \in Migrators :
        LET v == schema[m].Version
            chain == checksumHistory(migrations[m])
        IN  /\ Compared(m) =>
                  /\ 1 <= v /\ v <= Len(migrations[m])
                  /\ v \in DOMAIN chain
                  /\ Cardinality(DOMAIN chain) = Len(migrations[m]) + 1
            /\ (pc[m] # "idle" /\ v = 0) => ret[m].err.kind # "integrity"
            /\ (Returned(m) /\ ret[m].err.kind = "integrity") =>
                  Compared(m) /\ schema[m].Checksum # chain[v]

\* A call has compared the stored checksum with the last entry of its chain
\* and found it different
C36_Witness ==
    \E m \in Migrators :
        /\ Returned(m) /\ Compared(m)
        /\ schema[m].Version = Len(migrations[m])
        /\ Len(migrations[m]) = MaxScripts
        /\ ret[m].err.kind = "integrity"

-----------------------------------------------------------------------------
(* C37 *)

\* The lists l1 and l2 have the same first i scripts
SamePrefix(l1, l2, i) ==
    /\ i <= Len(l1) /\ i <= Len(l2)
    /\ \A k \in 1..i : l1[k] = l2[k]

\* C37 (prefix property of the chain): chain[i] depends only on the first i
\* scripts: it is the last entry of the chain of the list cut after them,
\* whatever the list of the call is.  So when the list of a call keeps the
\* scripts up to the persisted version, whatever was appended or changed
\* behind them, chain[version] is the stored checksum and the call does not
\* fail with an integrity error.
C37_ChainPrefix ==
    \A m \in Migrators :
        pc[m] # "idle" =>
            LET migs == migrations[m]
                v == Record(pre[m]).Version
            IN  /\ \A i \in 0..Len(migs) :
                      checksumHistory(SubSeq(migs, 1, i))[i] = checksumHistory(migs)[i]
                /\ (Len(pre[m].basis) = v /\ SamePrefix(pre[m].basis, migs, v)) =>
                      /\ checksumHistory(migs)[v] = Record(pre[m]).Checksum
                      /\ ret[m].err.kind # "integrity"

\* A validating call whose list goes on behind the one script applied so far
\* has applied the script that follows it
C37_Witness ==
    \E m \in Migrators :
        /\ Returned(m) /\ cfg[m].withChecksumValidation
        /\ Record(pre[m]).Version = 1
        /\ Len(pre[m].basis) = 1
        /\ SamePrefix(pre[m].basis, migrations[m], 1)
        /\ Len(migrations[m]) = MaxScripts
        /\ migrations[m][MaxScripts] # migrations[m][1]
        /\ ret[m] = [n |-> MaxScripts - 1, err |-> Nil]

-----------------------------------------------------------------------------
(* C38 *)

\* C38 (concurrent convergence): when two Migrators with the default
\* configuration and the same list of N valid scripts have both returned
\* without error, whichever way their steps interleaved, the persisted
\* record is (N, chain[N]).
C38_ConcurrentConvergence ==
    (/\ \A m \in Migrators :
            /\ Returned(m) /\ ret[m].err = Nil
            /\ cfg[m] = DefaultConfig
            /\ AllValid(migrations[m])
     /\ \A m, o \in Migrators : migrations[m] = migrations[o]) =>
        \A m \in Migrators :
            LET N == Len(migrations[m])
            IN  Record(db) = [Version |-> N, Checksum |-> checksumHistory(migrations[m])[N]]

\* Both calls read version 0 and both applied the whole list
C38_Witness ==
    /\ \A m \in Migrators :
          /\ Returned(m) /\ cfg[m] = DefaultConfig
          /\ Record(pre[m]).Version = 0
          /\ ret[m] = [n |-> MaxScripts, err |-> Nil]
    /\ \A m, o \in Migrators : migrations[m] = migrations[o]
    /\ Record(db).Version = MaxScripts
====
